---- MODULE Spec2Model ----
(***************************************************************************)
(* Model of the content extraction engine of ai-structurer                 *)
(* (src/server.py): extract_structured_content, which walks a parsed DOM   *)
(* subtree and renders tables, lists, headings and paragraphs to a         *)
(* marker-delimited text, and extract_article_content, the two-stage       *)
(* extraction of one URL.                                                  *)
(*                                                                         *)
(* Text is a sequence of one-character strings.  A DOM is a record of      *)
(* four parallel sequences indexed by node: parent (0 for the root), name  *)
(* (the tag), cls (the class attribute) and text (the node's own text      *)
(* node, which precedes its child elements).  Nodes are numbered in        *)
(* document (pre-)order, so BeautifulSoup's document order is the order    *)
(* of the node numbers, and Python's id(elem) is the node number.          *)
(***************************************************************************)
EXTENDS Integers, Sequences, FiniteSets, TLC

\* ------------------------------------------------------------ bounds
\* Nodes of a generated DOM subtree (the root included).
MaxNodes == 4
\* Rows of a generated table, cells of a generated row, items of a generated list.
MaxRows == 2
MaxCells == 2
MaxItems == 3
\* Elements of a generated page below its body.
MaxPageNodes == 3

\* ------------------------------------------------- program constants
\* len(text_content) > 15
MinParagraph == 15

\* ---------------------------------------------------------------- text
NL == "\n"
Whitespace == {" ", NL, "\t"}

Rep(c, n) == [i \in 1..n |-> c]

RECURSIVE Flatten(_)
Flatten(ss) == IF ss = <<>> THEN <<>> ELSE Head(ss) \o Flatten(Tail(ss))

RECURSIVE LStrip(_)
LStrip(s) == IF s # <<>> /\ Head(s) \in Whitespace THEN LStrip(Tail(s)) ELSE s

RECURSIVE RStrip(_)
RStrip(s) ==
    IF s # <<>> /\ s[Len(s)] \in Whitespace THEN RStrip(SubSeq(s, 1, Len(s) - 1)) ELSE s

\* str.strip()
Strip(s) == RStrip(LStrip(s))

\* sep.join(parts)
RECURSIVE Join(_, _)
Join(sep, parts) ==
    IF parts = <<>> THEN <<>>
    ELSE IF Len(parts) = 1 THEN parts[1]
    ELSE parts[1] \o sep \o Join(sep, Tail(parts))

Digits == <<"0", "1", "2", "3", "4", "5", "6", "7", "8", "9">>

\* str(n) of a natural number, as the f-string f"{i+1}" renders it
RECURSIVE Decimal(_)
Decimal(n) ==
    IF n < 10 THEN <<Digits[n + 1]>> ELSE Decimal(n \div 10) \o <<Digits[(n % 10) + 1]>>

\* The literals of the rendering.  "*" stands for the bullet character U+2022.
TABLE_OPEN == <<NL, "[", "T", "A", "B", "L", "E", "]", NL>>
TABLE_CLOSE == <<"[", "/", "T", "A", "B", "L", "E", "]", NL>>
LIST_OPEN == <<NL, "[", "L", "I", "S", "T", "]", NL>>
LIST_CLOSE == <<"[", "/", "L", "I", "S", "T", "]", NL>>
HEADING_OPEN == <<NL, "[", "H", "E", "A", "D", "I", "N", "G", "]", " ">>
HEADING_CLOSE == <<" ", "[", "/", "H", "E", "A", "D", "I", "N", "G", "]", NL>>
CELL_SEP == <<" ", "|", " ">>
BULLET == <<"*", " ">>

\* ----------------------------------------------------------------- DOM
STRUCTURED == {"table", "ol", "ul"}
HEADINGS == {"h1", "h2", "h3", "h4", "h5", "h6"}
ALLOWLIST == STRUCTURED \cup HEADINGS \cup {"p", "div"}

Nodes(d) == 1..Len(d.name)

\* m is n or a descendant of n
RECURSIVE InSubtree(_, _, _)
InSubtree(d, n, m) ==
    IF m = n THEN TRUE
    ELSE IF m < n \/ m = 0 THEN FALSE
    ELSE InSubtree(d, n, d.parent[m])

IsDescendant(d, n, m) == m # n /\ InSubtree(d, n, m)

RECURSIVE UpTo(_)
UpTo(n) == IF n = 0 THEN <<>> ELSE Append(UpTo(n - 1), n)

\* find_all with every match listed twice
find_all_repeated(d, n, names) ==
    LET keep(m) == IsDescendant(d, n, m) /\ d.name[m] \in names
        found == SelectSeq(UpTo(Len(d.name)), keep)
    IN found \o found

\* Tag.find_all(names): the descendants of n with one of the names, in document order
find_all(d, n, names) ==
    LET keep(m) == IsDescendant(d, n, m) /\ d.name[m] \in names
    IN SelectSeq(UpTo(Len(d.name)), keep)

\* Tag.get_text(strip=True): every string of the subtree stripped, the empty ones
\* dropped, the rest concatenated with no separator
get_text(d, n) ==
    LET inside(m) == InSubtree(d, n, m) /\ Strip(d.text[m]) # <<>>
        ms == SelectSeq(UpTo(Len(d.name)), inside)
    IN Flatten([k \in 1..Len(ms) |-> Strip(d.text[ms[k]])])

\* ------------------------------------------------ the generated inputs
Blank == <<" ">>
\* 15 characters once stripped, 17 as written
Pad15 == <<" ">> \o Rep("a", MinParagraph) \o <<" ">>
T16 == Rep("b", MinParagraph + 1)

\* The element passed to extract_structured_content.
RootDom == [parent |-> <<0>>, name |-> <<"div">>, cls |-> <<"">>, text |-> <<Blank>>]

AddNode(d, p, tag, c, txt) ==
    [parent |-> Append(d.parent, p), name |-> Append(d.name, tag),
     cls |-> Append(d.cls, c), text |-> Append(d.text, txt)]

\* The open elements a parser can append the next element to: the last node and
\* its ancestors.
RECURSIVE OpenPath(_, _)
OpenPath(d, n) == IF n = 0 THEN {} ELSE {n} \cup OpenPath(d, d.parent[n])

ChildTags(tag) ==
    CASE tag = "div" -> {"div", "p", "h2", "table", "ul", "ol"}
      [] tag = "table" -> {"tr", "p"}
      [] tag = "tr" -> {"td"}
      [] tag = "td" -> {"p", "table"}
      [] tag \in {"ul"} -> {"li", "ul"}
      [] tag \in {"ol"} -> {"li"}
      [] tag = "li" -> {"p", "ul"}
      [] OTHER -> {}

TextsOf(tag) ==
    CASE tag = "p" -> {Blank, Pad15, T16}
      [] tag = "div" -> {Blank, T16}
      [] tag \in {"h2", "td", "th", "li"} -> {Blank, Pad15}
      [] OTHER -> {Blank}

BoundedSeqs(S, n) == UNION { [1..k -> S] : k \in 0..n }

CellTexts == {Blank, Pad15, T16}
ItemTexts == {Blank, Pad15}

RECURSIVE AddCells(_, _, _, _)
AddCells(d, p, tag, cells) ==
    IF cells = <<>> THEN d
    ELSE AddCells(AddNode(d, p, tag, "", Head(cells)), p, tag, Tail(cells))

\* the rows of the table that is node 2; the first row's cells are th, the others' td
RECURSIVE AddRows(_, _, _)
AddRows(d, rows, first) ==
    IF rows = <<>> THEN d
    ELSE LET withTr == AddNode(d, 2, "tr", "", Blank)
         IN AddRows(AddCells(withTr, Len(withTr.name), IF first THEN "th" ELSE "td", Head(rows)),
                    Tail(rows), FALSE)

\* <div><table> rows </table></div>
TableDom(rows) == AddRows(AddNode(RootDom, 1, "table", "", Blank), rows, TRUE)

\* <div><ol|ul> items </ol|ul></div>
ListDom(tag, items) == AddCells(AddNode(RootDom, 1, tag, "", Blank), 2, "li", items)

\* ------------------------------------------- extract_structured_content
\* A part of content_parts.  The program holds the string (text); node and kind
\* record the element and the branch of process_element that appended it.
Part(n, k, t) == [node |-> n, kind |-> k, text |-> t]

cell_texts(d, row) ==
    LET cells == find_all(d, row, {"th", "td"})
        nonEmpty(c) == get_text(d, c) # <<>>
        kept == SelectSeq(cells, nonEmpty)
    IN [k \in 1..Len(kept) |-> get_text(d, kept[k])]

row_text(d, row) == Join(CELL_SEP, cell_texts(d, row))

\* table_text without the test of row_text.strip(): an empty row leaves a blank line
table_text_keeps_empty_rows(d, elem) ==
    LET rows == find_all(d, elem, {"tr"})
    IN TABLE_OPEN \o Flatten([k \in 1..Len(rows) |-> row_text(d, rows[k]) \o <<NL>>])
         \o TABLE_CLOSE

table_text(d, elem) ==
    LET rows == find_all(d, elem, {"tr"})
        line(r) == IF Strip(row_text(d, r)) # <<>> THEN row_text(d, r) \o <<NL>> ELSE <<>>
    IN TABLE_OPEN \o Flatten([k \in 1..Len(rows) |-> line(rows[k])]) \o TABLE_CLOSE

list_text(d, elem) ==
    LET list_items == find_all(d, elem, {"li"})
        prefix(i) == IF d.name[elem] = "ol" THEN Decimal(i + 1) \o <<".", " ">> ELSE BULLET
        \* i is enumerate's index, from 0
        line(i) == LET item_text == get_text(d, list_items[i + 1])
                   IN IF item_text # <<>> THEN prefix(i) \o item_text \o <<NL>> ELSE <<>>
    IN LIST_OPEN \o Flatten([k \in 1..Len(list_items) |-> line(k - 1)]) \o LIST_CLOSE

\* long_enough with >= for >
long_enough_inclusive(text_content) ==
    text_content # <<>> /\ Len(text_content) >= MinParagraph

\* text_content and len(text_content) > 15
long_enough(text_content) == text_content # <<>> /\ Len(text_content) > MinParagraph

\* has_nested_structure looking at the direct children only
has_nested_structure_direct(d, elem) ==
    \E m \in Nodes(d) : d.parent[m] = elem /\ d.name[m] \in STRUCTURED

has_nested_structure(d, elem) == find_all(d, elem, STRUCTURED) # <<>>

\* the parts process_element returns
process_element(d, elem, processed_ids) ==
    IF elem \in processed_ids THEN <<>>
    ELSE CASE d.name[elem] = "table" -> <<Part(elem, "table", table_text(d, elem))>>
           [] d.name[elem] \in {"ol", "ul"} ->
                IF find_all(d, elem, {"li"}) # <<>>
                THEN <<Part(elem, "list", list_text(d, elem))>>
                ELSE <<>>
           [] d.name[elem] \in HEADINGS ->
                IF get_text(d, elem) # <<>>
                THEN <<Part(elem, "heading", HEADING_OPEN \o get_text(d, elem) \o HEADING_CLOSE)>>
                ELSE <<>>
           [] d.name[elem] \in {"p", "div"} ->
                IF long_enough(get_text(d, elem)) /\ ~has_nested_structure(d, elem)
                THEN <<Part(elem, "paragraph", get_text(d, elem) \o <<NL>>)>>
                ELSE <<>>
           [] OTHER -> <<>>

\* elem.parent and elem.parent.name in ['table', 'ol', 'ul']
part_of_structured(d, elem) ==
    d.parent[elem] # 0 /\ d.name[d.parent[elem]] \in STRUCTURED

\* extend putting the new parts first
extend_front(content, parts) == parts \o content

\* content_parts.extend(parts)
extend(content, parts) == content \o parts

\* '\n'.join(content_parts)
joined(content) == Join(<<NL>>, [k \in 1..Len(content) |-> content[k].text])

\* The loop of extract_structured_content run to its end from (seen, content):
\* the parts of one whole call.
RECURSIVE run_loop(_, _, _, _)
run_loop(d, elems, seen, content) ==
    IF elems = <<>> THEN content
    ELSE IF part_of_structured(d, Head(elems)) THEN run_loop(d, Tail(elems), seen, content)
    ELSE run_loop(d, Tail(elems), seen \cup {Head(elems)},
                  extend(content, process_element(d, Head(elems), seen)))

extracted_parts(d, elem) == run_loop(d, find_all(d, elem, ALLOWLIST), {}, <<>>)

\* extract_structured_content(element), called by extract_article_content
extract_structured_content(d, elem) == joined(extracted_parts(d, elem))

\* ---------------------------------------------- extract_article_content
\* len(article.text.strip()) > 200
MinLibraryText == 200
\* len(wprm_content) > 500
MinRecipe == 500
\* len(content_text.strip()) > 200
MinContent == 200

NOISE == {"script", "style", "nav", "footer", "header", "aside"}
RECIPE_CLASS == "wprm-recipe-container"

content_selectors ==
    << [by |-> "tag", value |-> "article"], [by |-> "tag", value |-> "main"],
       [by |-> "class", value |-> "content"], [by |-> "class", value |-> "post-content"],
       [by |-> "class", value |-> "entry-content"],
       [by |-> "class", value |-> "article-content"],
       [by |-> "class", value |-> "post-body"], [by |-> "class", value |-> "story-body"],
       [by |-> "class", value |-> "article-body"] >>

\* soup.select(selector): every matching element, in document order
select(d, selector) ==
    LET hit(m) == IF selector.by = "tag" THEN d.name[m] = selector.value
                  ELSE d.cls[m] = selector.value
    IN SelectSeq(UpTo(Len(d.name)), hit)

\* The first element of a find_all, or 0 for None.
first_of(ms) == IF ms = <<>> THEN 0 ELSE ms[1]

\* soup.find('div', class_=lambda x: x and 'wprm-recipe-container' in str(x))
find_recipe(d) ==
    LET hit(m) == d.name[m] = "div" /\ d.cls[m] = RECIPE_CLASS
    IN first_of(SelectSeq(UpTo(Len(d.name)), hit))

\* soup.find(name)
find(d, tag) == first_of(find_all(d, 1, {tag}))

\* for script in soup([...]): script.decompose().  A decomposed element and its
\* subtree stay as nameless, textless slots, so that the other nodes keep their
\* numbers.
DECOMPOSED == "#decomposed"

\* decompose that removes the element and leaves what is inside it
decompose_tag_only(d) ==
    [parent |-> d.parent,
     name |-> [m \in Nodes(d) |-> IF d.name[m] \in NOISE THEN DECOMPOSED ELSE d.name[m]],
     cls |-> [m \in Nodes(d) |-> IF d.name[m] \in NOISE THEN "" ELSE d.cls[m]],
     text |-> [m \in Nodes(d) |-> IF d.name[m] \in NOISE THEN <<>> ELSE d.text[m]]]

decompose(d) ==
    LET gone(m) == \E n \in Nodes(d) : d.name[n] \in NOISE /\ InSubtree(d, n, m)
    IN [parent |-> d.parent,
        name |-> [m \in Nodes(d) |-> IF gone(m) THEN DECOMPOSED ELSE d.name[m]],
        cls |-> [m \in Nodes(d) |-> IF gone(m) THEN "" ELSE d.cls[m]],
        text |-> [m \in Nodes(d) |-> IF gone(m) THEN <<>> ELSE d.text[m]]]

\* Tag.get_text(): every string of the subtree, as written
get_text_raw(d, n) ==
    LET inside(m) == InSubtree(d, n, m)
        ms == SelectSeq(UpTo(Len(d.name)), inside)
    IN Flatten([k \in 1..Len(ms) |-> d.text[ms[k]]])

\* library_accepts with the floor one higher
library_accepts_above(text) == text # <<>> /\ Len(Strip(text)) > MinLibraryText + 1

\* article.text and len(article.text.strip()) > 200
library_accepts(text) == text # <<>> /\ Len(Strip(text)) > MinLibraryText

\* substantial with >= for >
substantial_inclusive(wprm_content) == Len(wprm_content) >= MinRecipe

\* len(wprm_content) > 500
substantial(wprm_content) == Len(wprm_content) > MinRecipe

\* accepts with >= for >
accepts_inclusive(text) == text # <<>> /\ Len(Strip(text)) >= MinContent

\* content_text and len(content_text.strip()) > 200
accepts(text) == text # <<>> /\ Len(Strip(text)) > MinContent

\* breaks with the scan going on after matches that extracted to nothing
breaks_when_found(elements, text) == elements # <<>> /\ text # <<>>

\* if elements: ... break
breaks(elements, text) == elements # <<>>

\* combined with the article content first
combined_article_first(text, article) ==
    IF text # <<>> /\ article # <<>> THEN article \o <<NL, NL>> \o text
    ELSE IF article # <<>> /\ text = <<>> THEN article
    ELSE text

\* The inner loop of the selector scan: the longest extraction among the matches,
\* the first of the longest.  best is [text, parts].
RECURSIVE longest(_, _, _)
longest(d, elements, best) ==
    IF elements = <<>> THEN best
    ELSE LET structured_text == extract_structured_content(d, Head(elements))
         IN longest(d, Tail(elements),
                    IF Len(structured_text) > Len(best.text)
                    THEN [text |-> structured_text, parts |-> extracted_parts(d, Head(elements))]
                    ELSE best)

\* The results.  None is Python's None; Pending is a call that has not returned;
\* Raised is a call that an exception has left.
None == [method |-> "None"]
Pending == [method |-> "pending"]
Raised == [method |-> "raised"]

\* library_outcome without the inner except: what download or parse raises
\* leaves the inner try
library_outcome_uncaught(answer) ==
    IF answer.kind = "raise" THEN "abort"
    ELSE IF library_accepts(answer.text) THEN "return"
    ELSE "fallback"

\* The inner try of method 1: "return" the library's article, "fallback" to
\* method 2 (the text is refused, or download or parse raised and the inner
\* except caught it), "abort" (an exception reaches the outer except).
library_outcome(answer) ==
    IF answer.kind = "raise" THEN "fallback"
    ELSE IF library_accepts(answer.text) THEN "return"
    ELSE "fallback"

\* on_exception without the outer except: the exception leaves the call
on_exception_uncaught == Raised

\* except Exception as e: ... return None
on_exception == None

\* http_attempts with a second request after one that raised
http_attempts_retried(answer) ==
    IF answer.kind = "raise" THEN <<"http", "http">> ELSE <<"http">>

\* requests.get(url, headers=headers, timeout=10): the requests it makes
http_attempts(answer) == <<"http">>

\* falls_back with the body also extracted when the content is too short
falls_back_short(text) == ~accepts(text)

\* if not content_text:
falls_back(text) == text = <<>>

\* Combine WPRM recipe content with article content if both exist
combined(text, article) ==
    IF text # <<>> /\ article # <<>> THEN text \o <<NL, NL>> \o article
    ELSE IF article # <<>> /\ text = <<>> THEN article
    ELSE text

\* ------------------------------------------------------------- the state
\* extract_structured_content: dom and element (its argument), all_elements, idx
\* (the loop's position in all_elements), seen_ids, content_parts, returned.
\* extract_article_content: pc (its position), library and http (what the two
\* network calls of this invocation will answer), soup, title, content_text,
\* article_content, sel (the selector loop's position), result, and calls (the
\* network calls made so far).  content_from and article_from record the parts
\* that content_text and article_content were joined from, extractions the
\* elements extract_structured_content was called on, in the order of the calls.
VARIABLES dom, element, all_elements, idx, seen_ids, content_parts, returned,
          pc, library, http, soup, title, content_text, article_content, sel, result,
          calls, content_from, article_from, extractions

\* Calls in flight at the same time: threads (per call, its arguments, what
\* the network will answer it, and its position), frames (per call, the objects
\* its local names are bound to), returns (per call, what it returned), and
\* overlapped (some call has taken a step while both were under way).
VARIABLES threads, frames, returns, overlapped

concVars == <<threads, frames, returns, overlapped>>

\* process(), the handler of /api/process: request (the JSON it received), hpc
\* (its position), input_text, article_data, max_retries (the configured
\* MAX_RETRIES), attempt (the loop variable of the LLM call loop, -1 before the
\* try block is entered), response, events (the calls it has made to its
\* collaborators, in order) and reply (what the handler ended with).
VARIABLES request, hpc, input_text, article_data, max_retries, attempt, response,
          events, reply

procVars == <<request, hpc, input_text, article_data, max_retries, attempt, response,
              events, reply>>
exVars == <<dom, element, all_elements, idx, seen_ids, content_parts, returned>>
artVars == <<pc, library, http, soup, title, content_text, article_content, sel, result,
             calls, content_from, article_from, extractions>>
vars == <<dom, element, all_elements, idx, seen_ids, content_parts, returned,
          pc, library, http, soup, title, content_text, article_content, sel, result,
          calls, content_from, article_from, extractions,
          threads, frames, returns, overlapped,
          request, hpc, input_text, article_data, max_retries, attempt, response,
          events, reply>>

\* The two calls in flight.
Calls == {"a", "b"}

\* the objects a call creates for its local names: processed_ids = set(),
\* content_parts = [], content_text = "", title = "", article_content = ""
fresh == [seen_ids |-> {}, content_parts |-> <<>>, content_text |-> <<>>,
          title |-> <<>>, article_content |-> <<>>]

\* frame with the names bound at module level: one set of objects for every call
frame_shared(c) == "a"

\* The frame a call's local names live in: its own.
frame(c) == c

\* a name of the handler not bound yet: article_data, response; no reply yet
Unset == [method |-> "unset"]
Unbound == [bound |-> FALSE, content |-> <<>>, none |-> FALSE, usage |-> FALSE]
NoReply == [kind |-> "none", body |-> "none", error |-> "none"]

\* no request
ProcessIdle ==
    /\ request = "none" /\ hpc = "idle" /\ input_text = <<>> /\ article_data = Unset
    /\ max_retries = 0 /\ attempt = -1 /\ response = Unbound /\ events = <<>>
    /\ reply = NoReply

\* no concurrent calls
ConcurrentIdle ==
    /\ threads = <<>> /\ frames = <<>> /\ returns = <<>> /\ overlapped = FALSE

NotReturned == "running"
EmptyDom == [parent |-> <<>>, name |-> <<>>, cls |-> <<>>, text |-> <<>>]

\* dom is d, or d with up to k more elements, each appended to an open element
RECURSIVE GrownFrom(_, _)
GrownFrom(d, k) ==
    \/ dom = d
    \/ /\ k > 0
       /\ \E p \in OpenPath(d, Len(d.name)) :
            \E tag \in ChildTags(d.name[p]) :
              \E txt \in TextsOf(tag) : GrownFrom(AddNode(d, p, tag, "", txt), k - 1)

\* The documents extract_structured_content is given: any subtree of up to MaxNodes
\* elements, a table of up to MaxRows rows of up to MaxCells cells, a list of up
\* to MaxItems items.
InputDom ==
    \/ GrownFrom(RootDom, MaxNodes - 1)
    \/ \E k \in 1..MaxRows :
         \E rows \in [1..k -> BoundedSeqs(CellTexts, MaxCells)] : dom = TableDom(rows)
    \/ \E tag \in {"ol", "ul"} :
         \E k \in 1..MaxItems : \E items \in [1..k -> ItemTexts] : dom = ListDom(tag, items)

\* no call of extract_article_content
ArticleIdle ==
    /\ pc = "idle" /\ library = "none" /\ http = "none" /\ soup = EmptyDom
    /\ title = <<>> /\ content_text = <<>> /\ article_content = <<>> /\ sel = 1
    /\ result = Pending /\ calls = <<>> /\ content_from = <<>> /\ article_from = <<>>
    /\ extractions = <<>>

\* extract_structured_content(element) at the head of its loop
Init ==
    /\ InputDom
    /\ ConcurrentIdle
    /\ ProcessIdle
    /\ element = 1
    /\ all_elements = find_all(dom, element, ALLOWLIST)
    /\ idx = 1
    /\ seen_ids = {}
    /\ content_parts = <<>>
    /\ returned = NotReturned
    /\ ArticleIdle

InLoop == returned = NotReturned /\ idx <= Len(all_elements)

\* an iteration that takes the continue
SkipStructured ==
    /\ InLoop
    /\ part_of_structured(dom, all_elements[idx])
    /\ idx' = idx + 1
    /\ UNCHANGED <<dom, element, all_elements, seen_ids, content_parts, returned>>
    /\ UNCHANGED <<artVars, concVars, procVars>>

\* an iteration that calls process_element
ProcessElement ==
    /\ InLoop
    /\ ~part_of_structured(dom, all_elements[idx])
    /\ content_parts' =
         extend(content_parts, process_element(dom, all_elements[idx], seen_ids))
    /\ seen_ids' = seen_ids \cup {all_elements[idx]}
    /\ idx' = idx + 1
    /\ UNCHANGED <<dom, element, all_elements, returned>>
    /\ UNCHANGED <<artVars, concVars, procVars>>

Return ==
    /\ returned = NotReturned
    /\ idx > Len(all_elements)
    /\ returned' = joined(content_parts)
    /\ UNCHANGED <<dom, element, all_elements, idx, seen_ids, content_parts>>
    /\ UNCHANGED <<artVars, concVars, procVars>>

Next == SkipStructured \/ ProcessElement \/ Return

Spec == Init /\ [][Next]_vars

\* --------------------------------------------- the calls of the article
\* What the library (newspaper3k) answers: download or parse raises, or article.text.
LibraryAnswers ==
    { [kind |-> "raise"], [kind |-> "text", text |-> <<>>],
      [kind |-> "text", text |-> <<NL>> \o Rep("n", MinLibraryText) \o <<NL>>],
      [kind |-> "text", text |-> <<NL>> \o Rep("n", MinLibraryText + 1) \o <<NL>>] }

Answered == [kind |-> "answered"]

\* The skeletons of a page: a document with a title and a body, with a body, bare.
Document == [parent |-> <<0>>, name |-> <<"[document]">>, cls |-> <<"">>, text |-> <<Blank>>]
TitledPage ==
    AddNode(AddNode(Document, 1, "title", "", <<" ", "T", " ">>), 1, "body", "", Blank)
UntitledPage == AddNode(Document, 1, "body", "", Blank)

Kind(tag, c) == [tag |-> tag, cls |-> c]

PageChildKinds(d, p) ==
    CASE d.name[p] = "body" ->
           { Kind("article", ""), Kind("main", ""), Kind("div", "content"),
             Kind("div", RECIPE_CLASS), Kind("nav", ""), Kind("p", "") }
      [] d.name[p] = "article" -> { Kind("p", ""), Kind("div", RECIPE_CLASS), Kind("nav", "") }
      [] d.name[p] \in {"main", "div", "nav"} -> { Kind("p", "") }
      [] OTHER -> {}

\* The texts of a page's paragraphs, at the thresholds of the acceptance rules.
PageTexts(d, p, kind) ==
    IF kind.tag # "p" THEN {Blank}
    ELSE IF d.cls[p] = RECIPE_CLASS THEN {Rep("r", MinRecipe - 1), Rep("s", MinRecipe)}
    ELSE IF d.name[p] = "nav" THEN {Rep("v", MinContent + 1)}
    ELSE {Blank, Rep("c", MinContent), Rep("d", MinContent + 1)}

\* the response holds page d, or d with up to k more elements
RECURSIVE PageGrownFrom(_, _)
PageGrownFrom(d, k) ==
    \/ http = [kind |-> "ok", page |-> d]
    \/ /\ k > 0
       /\ \E p \in OpenPath(d, Len(d.name)) :
            \E kind \in PageChildKinds(d, p) :
              \E txt \in PageTexts(d, p, kind) :
                PageGrownFrom(AddNode(d, p, kind.tag, kind.cls, txt), k - 1)

\* What requests.get answers: it raises (connection error, timeout), a status
\* that raise_for_status raises on, a content that BeautifulSoup raises on, or a
\* page.
HttpAnswer ==
    \/ http \in { [kind |-> "raise"], [kind |-> "status"], [kind |-> "unparsable"] }
    \/ http = [kind |-> "ok", page |-> Document]
    \/ PageGrownFrom(TitledPage, MaxPageNodes)
    \/ PageGrownFrom(UntitledPage, MaxPageNodes)

\* no call of extract_structured_content of its own
ExtractorIdle ==
    /\ dom = EmptyDom /\ element = 0 /\ all_elements = <<>> /\ idx = 1
    /\ seen_ids = {} /\ content_parts = <<>> /\ returned = NotReturned

\* extract_article_content(url) at its first statement
InitArticle ==
    /\ ExtractorIdle
    /\ ConcurrentIdle
    /\ ProcessIdle
    /\ pc = "library"
    /\ library \in LibraryAnswers
    /\ HttpAnswer
    /\ soup = EmptyDom
    /\ title = <<>> /\ content_text = <<>> /\ article_content = <<>> /\ sel = 1
    /\ result = Pending /\ calls = <<>> /\ content_from = <<>> /\ article_from = <<>>
    /\ extractions = <<>>

\* Method 1: article.download(), article.parse() and the test of article.text
LibraryExtraction ==
    /\ pc = "library"
    /\ calls' = Append(calls, "library")
    /\ library' = Answered
    /\ IF library_outcome(library) = "return"
       THEN /\ result' = [title |-> <<"A">>, text |-> Strip(library.text),
                          method |-> "newspaper3k"]
            /\ pc' = "done"
       ELSE IF library_outcome(library) = "fallback"
       THEN /\ pc' = "fetch"
            /\ UNCHANGED result
       ELSE /\ result' = on_exception
            /\ pc' = "done"
    /\ UNCHANGED <<http, soup, title, content_text, article_content, sel,
                   content_from, article_from, extractions>>
    /\ UNCHANGED <<exVars, concVars, procVars>>

\* Method 2: requests.get, raise_for_status, BeautifulSoup(response.content)
HttpGet ==
    /\ pc = "fetch"
    /\ calls' = calls \o http_attempts(http)
    /\ http' = Answered
    /\ IF http.kind = "ok"
       THEN /\ soup' = http.page
            /\ pc' = "clean"
            /\ UNCHANGED result
       ELSE /\ result' = on_exception
            /\ pc' = "done"
            /\ UNCHANGED soup
    /\ UNCHANGED <<library, title, content_text, article_content, sel,
                   content_from, article_from, extractions>>
    /\ UNCHANGED <<exVars, concVars, procVars>>

\* the removal of script, style, nav, footer, header and aside
RemoveNoise ==
    /\ pc = "clean"
    /\ soup' = decompose(soup)
    /\ pc' = "recipe"
    /\ UNCHANGED <<library, http, title, content_text, article_content, sel, result,
                   calls, content_from, article_from, extractions>>
    /\ UNCHANGED <<exVars, concVars, procVars>>

\* the WPRM recipe container, kept when its extraction is substantial
RecipeContainer ==
    /\ pc = "recipe"
    /\ LET wprm_recipe == find_recipe(soup)
           wprm_content == extract_structured_content(soup, wprm_recipe)
       IN IF wprm_recipe # 0 /\ substantial(wprm_content)
          THEN /\ content_text' = wprm_content
               /\ content_from' = extracted_parts(soup, wprm_recipe)
          ELSE UNCHANGED <<content_text, content_from>>
    /\ extractions' = IF find_recipe(soup) # 0
                      THEN Append(extractions, find_recipe(soup))
                      ELSE extractions
    /\ pc' = "title"
    /\ UNCHANGED <<library, http, soup, title, article_content, sel, result, calls,
                   article_from>>
    /\ UNCHANGED <<exVars, concVars, procVars>>

\* title_tag.get_text().strip()
ExtractTitle ==
    /\ pc = "title"
    /\ title' = IF find(soup, "title") # 0
                THEN Strip(get_text_raw(soup, find(soup, "title")))
                ELSE title
    /\ pc' = "select"
    /\ UNCHANGED <<library, http, soup, content_text, article_content, sel, result,
                   calls, content_from, article_from, extractions>>
    /\ UNCHANGED <<exVars, concVars, procVars>>

\* an iteration of the selector loop: no match and on to the next selector, or
\* the longest extraction of the matches and break
TrySelector ==
    /\ pc = "select"
    /\ sel <= Len(content_selectors)
    /\ LET elements == select(soup, content_selectors[sel])
           best == longest(soup, elements, [text |-> article_content, parts |-> article_from])
       IN /\ article_content' = best.text
          /\ article_from' = best.parts
          /\ extractions' = extractions \o elements
          /\ IF breaks(elements, best.text)
             THEN pc' = "combine" /\ UNCHANGED sel
             ELSE sel' = sel + 1 /\ UNCHANGED pc
    /\ UNCHANGED <<library, http, soup, title, content_text, result, calls, content_from>>
    /\ UNCHANGED <<exVars, concVars, procVars>>

\* the selector loop ends with no selector matched
SelectorsExhausted ==
    /\ pc = "select"
    /\ sel > Len(content_selectors)
    /\ pc' = "combine"
    /\ UNCHANGED <<library, http, soup, title, content_text, article_content, sel,
                   result, calls, content_from, article_from, extractions>>
    /\ UNCHANGED <<exVars, concVars, procVars>>

\* the recipe content, then a blank line, then the article content
Combine ==
    /\ pc = "combine"
    /\ content_text' = combined(content_text, article_content)
    /\ content_from' = IF content_text # <<>> /\ article_content # <<>>
                       THEN content_from \o article_from
                       ELSE IF article_content # <<>> /\ content_text = <<>>
                       THEN article_from
                       ELSE content_from
    /\ pc' = "body"
    /\ UNCHANGED <<library, http, soup, title, article_content, sel, result, calls,
                   article_from, extractions>>
    /\ UNCHANGED <<exVars, concVars, procVars>>

\* if not content_text: the extraction of the body
BodyFallback ==
    /\ pc = "body"
    /\ IF falls_back(content_text) /\ find(soup, "body") # 0
       THEN /\ content_text' = extract_structured_content(soup, find(soup, "body"))
            /\ content_from' = extracted_parts(soup, find(soup, "body"))
            /\ extractions' = Append(extractions, find(soup, "body"))
       ELSE UNCHANGED <<content_text, content_from, extractions>>
    /\ pc' = "accept"
    /\ UNCHANGED <<library, http, soup, title, article_content, sel, result, calls,
                   article_from>>
    /\ UNCHANGED <<exVars, concVars, procVars>>

\* the acceptance of content_text: the result, or None
Accept ==
    /\ pc = "accept"
    /\ result' = IF accepts(content_text)
                 THEN [title |-> IF title # <<>> THEN title ELSE <<"W">>,
                       text |-> Strip(content_text), method |-> "beautifulsoup"]
                 ELSE None
    /\ pc' = "done"
    /\ UNCHANGED <<library, http, soup, title, content_text, article_content, sel,
                   calls, content_from, article_from, extractions>>
    /\ UNCHANGED <<exVars, concVars, procVars>>

NextArticle ==
    \/ LibraryExtraction \/ HttpGet \/ RemoveNoise \/ RecipeContainer \/ ExtractTitle
    \/ TrySelector \/ SelectorsExhausted \/ Combine \/ BodyFallback \/ Accept

SpecArticle == InitArticle /\ [][NextArticle]_vars

\* ------------------------------------------------- calls in flight together
\* The elements a concurrent call's document has beyond its root (its body).
MaxConcNodes == 1

\* the texts of a set that are the longest once trimmed
Fullest(S) == { t \in S : \A u \in S : Len(Strip(u)) <= Len(Strip(t)) }

\* the documents with one more element than d
OneMore(d) ==
    UNION { UNION { { AddNode(d, p, tag, "", txt) : txt \in Fullest(TextsOf(tag)) }
                    : tag \in ChildTags(d.name[p]) }
            : p \in OpenPath(d, Len(d.name)) }

\* the documents of up to k more elements than those of D
RECURSIVE Grown(_, _)
Grown(D, k) == IF k = 0 THEN D ELSE D \cup Grown(UNION { OneMore(d) : d \in D }, k - 1)

\* the pages with one more element than d
PageOneMore(d) ==
    UNION { UNION { { AddNode(d, p, kind.tag, kind.cls, txt)
                      : txt \in Fullest(PageTexts(d, p, kind)) }
                    : kind \in PageChildKinds(d, p) }
            : p \in OpenPath(d, Len(d.name)) }

\* the pages of up to k more elements than those of D
RECURSIVE PagesGrown(_, _)
PagesGrown(D, k) ==
    IF k = 0 THEN D ELSE D \cup PagesGrown(UNION { PageOneMore(d) : d \in D }, k - 1)

\* A call of extract_structured_content(element) about to start.
StructuredCalls ==
    { [kind |-> "structured", pc |-> "enter", dom |-> d, all_elements |-> <<>>, idx |-> 1,
       library |-> "none", http |-> "none", soup |-> EmptyDom]
      : d \in Grown({RootDom}, MaxConcNodes) }

\* A call of extract_article_content(url) about to start: the library answers
\* an article, or fails and the fetch has its answer.
ArticleCalls ==
    { [kind |-> "article", pc |-> "library", dom |-> EmptyDom, all_elements |-> <<>>,
       idx |-> 1, library |-> l, http |-> h, soup |-> EmptyDom]
      : l \in {[kind |-> "raise"]},
        h \in {[kind |-> "raise"]}
              \cup { [kind |-> "ok", page |-> d]
                     : d \in PagesGrown({TitledPage}, MaxConcNodes) } }
    \cup { [kind |-> "article", pc |-> "library", dom |-> EmptyDom, all_elements |-> <<>>,
            idx |-> 1, library |-> l, http |-> [kind |-> "raise"], soup |-> EmptyDom]
           : l \in {[kind |-> "text", text |-> <<NL>> \o Rep("n", MinLibraryText + 1)]} }

\* two calls about to start, no frame yet
InitConcurrent ==
    /\ ExtractorIdle
    /\ ArticleIdle
    /\ ProcessIdle
    /\ threads \in [Calls -> StructuredCalls \cup ArticleCalls]
    /\ threads["a"].kind = "structured" => threads["b"].kind = "structured"
    /\ frames = [c \in Calls |-> fresh]
    /\ returns = [c \in Calls |-> Pending]
    /\ overlapped = FALSE

\* id(elem) of element n of call c's document
id(c, n) == <<c, n>>
\* the elements of call c's document whose ids are in a set
ids_of(c, ids) == { n \in Nodes(threads[c].dom) : id(c, n) \in ids }

UnderWay(c) == threads[c].pc \notin {"enter", "library", "done"}

\* call c takes a step: from pc to next, with its names bound to cell and
\* thread fields changed to t
Step(c, from, next, t, cell) ==
    /\ threads[c].pc = from
    /\ threads' = [threads EXCEPT ![c] = [t EXCEPT !.pc = next]]
    /\ frames' = [frames EXCEPT ![frame(c)] = cell]
    /\ overlapped' = (overlapped \/ (UnderWay(c) /\ \E o \in Calls \ {c} : UnderWay(o)))
    /\ UNCHANGED <<exVars, artVars, procVars>>

Local(c) == frames[frame(c)]

\* processed_ids = set(); content_parts = []; all_elements = element.find_all(...)
Enter(c) ==
    /\ Step(c, "enter", "loop",
            [threads[c] EXCEPT !.all_elements = find_all(threads[c].dom, 1, ALLOWLIST)],
            [Local(c) EXCEPT !.seen_ids = {}, !.content_parts = <<>>])
    /\ UNCHANGED returns

\* one iteration of the loop over all_elements
Iterate(c) ==
    LET t == threads[c]
        elem == t.all_elements[t.idx]
    IN /\ t.pc = "loop"
       /\ t.idx <= Len(t.all_elements)
       /\ Step(c, "loop", "loop", [t EXCEPT !.idx = @ + 1],
               IF part_of_structured(t.dom, elem) THEN Local(c)
               ELSE [Local(c) EXCEPT
                       !.content_parts =
                          extend(@, process_element(t.dom, elem,
                                                    ids_of(c, Local(c).seen_ids))),
                       !.seen_ids = @ \cup {id(c, elem)}])
       /\ UNCHANGED returns

\* return '\n'.join(content_parts)
ReturnJoined(c) ==
    /\ threads[c].kind = "structured"
    /\ threads[c].idx > Len(threads[c].all_elements)
    /\ Step(c, "loop", "done", threads[c], Local(c))
    /\ returns' = [returns EXCEPT ![c] = joined(Local(c).content_parts)]

\* Method 1
CallLibrary(c) ==
    LET outcome == library_outcome(threads[c].library)
    IN /\ Step(c, "library", IF outcome = "fallback" THEN "fetch" ELSE "done",
               threads[c], Local(c))
       /\ returns' = [returns EXCEPT ![c] =
                        IF outcome = "return"
                        THEN [title |-> <<"A">>, text |-> Strip(threads[c].library.text),
                              method |-> "newspaper3k"]
                        ELSE IF outcome = "fallback" THEN @
                        ELSE on_exception]

\* requests.get, BeautifulSoup, the removal of the noise; content_text = "", title = ""
Fetch(c) ==
    LET ok == threads[c].http.kind = "ok"
    IN /\ Step(c, "fetch", IF ok THEN "recipe" ELSE "done",
               IF ok THEN [threads[c] EXCEPT !.soup = decompose(threads[c].http.page)]
               ELSE threads[c],
               IF ok THEN [Local(c) EXCEPT !.content_text = <<>>, !.title = <<>>]
               ELSE Local(c))
       /\ returns' = [returns EXCEPT ![c] = IF ok THEN @ ELSE on_exception]

\* the WPRM recipe container
CheckRecipe(c) ==
    LET d == threads[c].soup
        wprm_recipe == find_recipe(d)
    IN /\ Step(c, "recipe", "title", threads[c],
               IF wprm_recipe # 0 /\ substantial(extract_structured_content(d, wprm_recipe))
               THEN [Local(c) EXCEPT !.content_text = extract_structured_content(d, wprm_recipe)]
               ELSE Local(c))
       /\ UNCHANGED returns

\* the title
ReadTitle(c) ==
    LET d == threads[c].soup
    IN /\ Step(c, "title", "select", threads[c],
               IF find(d, "title") # 0
               THEN [Local(c) EXCEPT !.title = Strip(get_text_raw(d, find(d, "title")))]
               ELSE Local(c))
       /\ UNCHANGED returns

\* the selector loop from selector k on: article_content at its end
RECURSIVE scan(_, _, _)
scan(d, k, article) ==
    IF k > Len(content_selectors) THEN article
    ELSE LET elements == select(d, content_selectors[k])
             best == longest(d, elements, [text |-> article, parts |-> <<>>]).text
         IN IF breaks(elements, best) THEN best ELSE scan(d, k + 1, best)

\* article_content = "" and the selector loop
Scan(c) ==
    /\ Step(c, "select", "combine", threads[c],
            [Local(c) EXCEPT !.article_content = scan(threads[c].soup, 1, <<>>)])
    /\ UNCHANGED returns

\* the combination of the two contents
CombineContents(c) ==
    /\ Step(c, "combine", "body", threads[c],
            [Local(c) EXCEPT !.content_text = combined(@, Local(c).article_content)])
    /\ UNCHANGED returns

\* the extraction of the body
ExtractBody(c) ==
    LET d == threads[c].soup
    IN /\ Step(c, "body", "accept", threads[c],
               IF falls_back(Local(c).content_text) /\ find(d, "body") # 0
               THEN [Local(c) EXCEPT
                       !.content_text = extract_structured_content(d, find(d, "body"))]
               ELSE Local(c))
       /\ UNCHANGED returns

\* the acceptance: the result, or None
AcceptContent(c) ==
    /\ Step(c, "accept", "done", threads[c], Local(c))
    /\ returns' = [returns EXCEPT ![c] =
                     IF accepts(Local(c).content_text)
                     THEN [title |-> IF Local(c).title # <<>> THEN Local(c).title
                                     ELSE <<"W">>,
                           text |-> Strip(Local(c).content_text),
                           method |-> "beautifulsoup"]
                     ELSE None]

NextConcurrent ==
    \E c \in Calls :
      \/ Enter(c) \/ Iterate(c) \/ ReturnJoined(c)
      \/ CallLibrary(c) \/ Fetch(c) \/ CheckRecipe(c) \/ ReadTitle(c) \/ Scan(c)
      \/ CombineContents(c) \/ ExtractBody(c) \/ AcceptContent(c)

SpecConcurrent == InitConcurrent /\ [][NextConcurrent]_vars

\* ------------------------------------------------------------ process()
\* The largest MAX_RETRIES a configuration is given.
MaxConfigured == 3

\* what a field of the request holds: nothing, blanks, a text
FieldTexts == {<<>>, <<" ">>, <<"t">>}
\* the keys of verbosity_instructions
VERBOSITIES == {"Concise", "Detailed", "Comprehensive"}

\* jsonify({"error": ...}) and jsonify({"html": ...}); Escaped is an exception
\* that leaves the handler
ErrorJson(why) == [kind |-> "json", body |-> "error", error |-> why]
HtmlJson == [kind |-> "json", body |-> "html", error |-> "none"]
Escaped(exception) == [kind |-> "exception", body |-> "none", error |-> exception]

\* what extract_article_content returns to the handler
Extracted == [title |-> <<"W">>, text |-> <<"x">>, method |-> "beautifulsoup"]

\* what openai.chat.completions.create returns when it returns: an html, a blank
\* text, a response with no usage, a response with no content
Responses ==
    { [bound |-> TRUE, content |-> <<"h">>, none |-> FALSE, usage |-> TRUE],
      [bound |-> TRUE, content |-> <<" ">>, none |-> FALSE, usage |-> TRUE],
      [bound |-> TRUE, content |-> <<"h">>, none |-> FALSE, usage |-> FALSE] }
NoContent == [bound |-> TRUE, content |-> <<>>, none |-> TRUE, usage |-> TRUE]

\* stops_on_failure with the text or the topic of the request used instead
stops_on_failure_without_input(data, text, topic) ==
    data = None /\ text = <<>> /\ topic = <<>>

\* if not article_data:
stops_on_failure(data, text, topic) == data = None

\* is_last that is never true
is_last_never(n, retries) == FALSE

\* if attempt == max_retries - 1:
is_last(n, retries) == n = retries - 1

\* except OpenAIError as e / except Exception as e
handled(exception) ==
    IF exception = "OpenAIError" THEN ErrorJson("OpenAI API error")
    ELSE ErrorJson("Unexpected server error")

\* A request received by a server configured with some MAX_RETRIES.
InitProcess ==
    /\ ExtractorIdle
    /\ ArticleIdle
    /\ ConcurrentIdle
    /\ request \in [text : FieldTexts, aiTopic : FieldTexts, articleUrl : FieldTexts,
                    verbosity : {"Detailed", "Brief"}]
    /\ max_retries \in -1..MaxConfigured
    /\ hpc = "start" /\ input_text = <<>> /\ article_data = Unset /\ attempt = -1
    /\ response = Unbound /\ events = <<>> /\ reply = NoReply

ai_topic == Strip(request.aiTopic)
article_url == Strip(request.articleUrl)
is_ai_research == ai_topic # <<>> /\ input_text = <<>>

\* the fields of the request and the test for no input
Receive ==
    /\ hpc = "start"
    /\ input_text' = Strip(request.text)
    /\ IF Strip(request.text) = <<>> /\ ai_topic = <<>> /\ article_url = <<>>
       THEN reply' = ErrorJson("No input") /\ hpc' = "done"
       ELSE /\ hpc' = IF article_url # <<>> THEN "extract" ELSE "theme"
            /\ UNCHANGED reply
    /\ UNCHANGED <<request, article_data, max_retries, attempt, response, events>>
    /\ UNCHANGED <<exVars, artVars, concVars>>

\* Handle URL extraction first if provided
ExtractFromUrl ==
    /\ hpc = "extract"
    /\ events' = Append(events, "extract")
    /\ \E data \in {None, Extracted} :
         /\ article_data' = data
         /\ IF stops_on_failure(data, input_text, ai_topic)
            THEN /\ reply' = ErrorJson("Failed to extract")
                 /\ hpc' = "done"
                 /\ UNCHANGED input_text
            ELSE /\ input_text' = IF data = None THEN input_text
                                  ELSE <<"A", ":", " ">> \o data.title \o <<NL, NL>> \o data.text
                 /\ hpc' = "theme"
                 /\ UNCHANGED reply
    /\ UNCHANGED <<request, max_retries, attempt, response>>
    /\ UNCHANGED <<exVars, artVars, concVars>>

\* extract_theme(processing_text)
DetectTheme ==
    /\ hpc = "theme"
    /\ events' = Append(events, "theme")
    /\ hpc' = "search"
    /\ UNCHANGED <<request, input_text, article_data, max_retries, attempt, response, reply>>
    /\ UNCHANGED <<exVars, artVars, concVars>>

\* web_search of the topic, or generate_search_query and web_search
SearchWeb ==
    /\ hpc = "search"
    /\ events' = events \o (IF is_ai_research THEN <<"search">> ELSE <<"query", "search">>)
    /\ hpc' = "prompt"
    /\ UNCHANGED <<request, input_text, article_data, max_retries, attempt, response, reply>>
    /\ UNCHANGED <<exVars, artVars, concVars>>

\* the prompt: verbosity_instructions[verbosity] raises KeyError outside the try
\* block; otherwise the try block is entered and the loop begins
BuildPrompt ==
    /\ hpc = "prompt"
    /\ IF request.verbosity \in VERBOSITIES
       THEN hpc' = "loop" /\ attempt' = 0 /\ UNCHANGED reply
       ELSE hpc' = "done" /\ reply' = Escaped("KeyError") /\ UNCHANGED attempt
    /\ UNCHANGED <<request, input_text, article_data, max_retries, response, events>>
    /\ UNCHANGED <<exVars, artVars, concVars>>

\* an attempt whose try body runs to its break
AttemptSucceeds ==
    /\ hpc = "loop" /\ attempt < max_retries
    /\ events' = Append(events, "llm_ok")
    /\ response' \in Responses
    /\ hpc' = "after"
    /\ UNCHANGED <<request, input_text, article_data, max_retries, attempt, reply>>
    /\ UNCHANGED <<exVars, artVars, concVars>>

\* an attempt whose try body raises: the call itself, or the len() of a content
\* that is None; the last attempt raises again, the others sleep
AttemptFails ==
    /\ hpc = "loop" /\ attempt < max_retries
    /\ \E fault \in {"OpenAIError", "Exception", "TypeError"} :
         /\ response' = IF fault = "TypeError" THEN NoContent ELSE response
         /\ IF is_last(attempt, max_retries)
            THEN /\ events' = Append(events, "llm_fail")
                 /\ reply' = handled(fault)
                 /\ hpc' = "done"
                 /\ UNCHANGED attempt
            ELSE /\ events' = events \o <<"llm_fail", "sleep">>
                 /\ attempt' = attempt + 1
                 /\ UNCHANGED <<hpc, reply>>
    /\ UNCHANGED <<request, input_text, article_data, max_retries>>
    /\ UNCHANGED <<exVars, artVars, concVars>>

\* range(max_retries) is at its end
LoopExhausted ==
    /\ hpc = "loop" /\ attempt >= max_retries
    /\ hpc' = "after"
    /\ UNCHANGED <<request, input_text, article_data, max_retries, attempt, response,
                   events, reply>>
    /\ UNCHANGED <<exVars, artVars, concVars>>

\* ai_html = response.choices[0].message.content and what follows it
UseResponse ==
    /\ hpc = "after"
    /\ reply' = IF ~response.bound THEN handled("UnboundLocalError")
                ELSE IF response.none THEN handled("TypeError")
                ELSE IF ~response.usage THEN handled("AttributeError")
                ELSE IF Strip(response.content) = <<>> THEN ErrorJson("AI returned empty HTML")
                ELSE HtmlJson
    /\ hpc' = "done"
    /\ UNCHANGED <<request, input_text, article_data, max_retries, attempt, response, events>>
    /\ UNCHANGED <<exVars, artVars, concVars>>

NextProcess ==
    \/ Receive \/ ExtractFromUrl \/ DetectTheme \/ SearchWeb \/ BuildPrompt
    \/ AttemptSucceeds \/ AttemptFails \/ LoopExhausted \/ UseResponse

SpecProcess == InitProcess /\ [][NextProcess]_vars

\* ------------------------------------------------------------ the claims
Returned == returned # NotReturned
PartIndexes == DOMAIN content_parts
HasPart(n, k) == \E i \in PartIndexes : content_parts[i].node = n /\ content_parts[i].kind = k
Descendants(d, n) == { m \in Nodes(d) : IsDescendant(d, n, m) }
Named(d, n, names) == { m \in Descendants(d, n) : d.name[m] \in names }
OwnText(d, m) == Strip(d.text[m])

\* The nodes whose own text is in the text of an element.
TextNodes(d, n) == { m \in Nodes(d) : InSubtree(d, n, m) /\ OwnText(d, m) # <<>> }

\* The nodes whose text a part holds: a table's is that of its rows' cells, a
\* list's that of its items, a heading's or paragraph's that of the element.
Contributors(d, part) ==
    CASE part.kind = "table" ->
           UNION { UNION { TextNodes(d, c) : c \in Named(d, r, {"th", "td"}) } :
                   r \in Named(d, part.node, {"tr"}) }
      [] part.kind = "list" -> UNION { TextNodes(d, li) : li \in Named(d, part.node, {"li"}) }
      [] OTHER -> TextNodes(d, part.node)

\* C1: no DOM node contributes its text to more than one emitted block.
C1_AtMostOnceEmission ==
    \A i, j \in PartIndexes :
        i < j => Contributors(dom, content_parts[i]) \cap Contributors(dom, content_parts[j]) = {}

\* The items of a list in source order, trimmed, the empty ones dropped.
SurvivingItems(d, n) ==
    LET lis == find_all(d, n, {"li"})
        texts == [k \in 1..Len(lis) |-> get_text(d, lis[k])]
        nonEmpty(t) == t # <<>>
    IN SelectSeq(texts, nonEmpty)

\* C3: an ordered list's surviving k items are rendered with the prefixes
\* 1., 2., ..., k. in source order; a dropped item leaves no gap.
C3_OrderedListRenumbered ==
    \A i \in PartIndexes :
        LET part == content_parts[i]
            items == SurvivingItems(dom, part.node)
        IN (part.kind = "list" /\ dom.name[part.node] = "ol") =>
             part.text = LIST_OPEN
                           \o Flatten([k \in 1..Len(items) |->
                                         Decimal(k) \o <<".", " ">> \o items[k] \o <<NL>>])
                           \o LIST_CLOSE

\* The non-empty trimmed cells of a row, in source order.
RowCells(d, r) ==
    LET cells == find_all(d, r, {"th", "td"})
        texts == [k \in 1..Len(cells) |-> get_text(d, cells[k])]
        nonEmpty(t) == t # <<>>
    IN SelectSeq(texts, nonEmpty)

\* The rows of a table that have a non-empty cell, in source order.
SurvivingRows(d, t) ==
    LET hasCell(r) == RowCells(d, r) # <<>>
    IN SelectSeq(find_all(d, t, {"tr"}), hasCell)

\* C4: a [TABLE] block is emitted for a table only if at least one of its rows
\* survives the empty-row filter.
C4_TableOnlyIfRowSurvives ==
    \A i \in PartIndexes :
        content_parts[i].kind = "table" => SurvivingRows(dom, content_parts[i].node) # <<>>

\* C5: in a table block the rows whose cells are all empty are dropped and the
\* surviving rows follow one per line in source order, each the " | " join of its
\* non-empty trimmed cells.
C5_TableRowsRendered ==
    \A i \in PartIndexes :
        LET part == content_parts[i]
            rows == SurvivingRows(dom, part.node)
        IN part.kind = "table" =>
             part.text = TABLE_OPEN
                           \o Flatten([k \in 1..Len(rows) |->
                                         Join(CELL_SEP, RowCells(dom, rows[k])) \o <<NL>>])
                           \o TABLE_CLOSE

\* C5 witness: a table block whose table lost an all-empty row, kept two rows and
\* joined two cells in one of them.
C5_Witness ==
    \E i \in PartIndexes :
        LET part == content_parts[i]
            rows == SurvivingRows(dom, part.node)
        IN /\ part.kind = "table"
           /\ Len(rows) < Len(find_all(dom, part.node, {"tr"}))
           /\ \E r \in Named(dom, part.node, {"tr"}) : Len(RowCells(dom, r)) >= 2

\* C6: every emitted block has non-empty content: a list block has a non-empty
\* item, a heading block a non-empty heading text.
C6_BlocksNonEmpty ==
    \A i \in PartIndexes :
        LET part == content_parts[i]
        IN /\ part.kind = "list" => SurvivingItems(dom, part.node) # <<>>
           /\ part.kind = "heading" => get_text(dom, part.node) # <<>>

\* C7: the blocks are in the document order of the nodes they were produced from,
\* and the returned text holds them in that order.
C7_DocumentOrder ==
    /\ \A i, j \in PartIndexes : i < j => content_parts[i].node < content_parts[j].node
    /\ Returned =>
         returned = Join(<<NL>>, [k \in 1..Len(content_parts) |-> content_parts[k].text])

\* C7 witness: a returned text of three blocks.
C7_Witness == Returned /\ Len(content_parts) >= 3

\* The p and div elements the loop has passed without the parent rule skipping them.
HandledBlocks ==
    { all_elements[k] : k \in { j \in 1..(idx - 1) :
          /\ dom.name[all_elements[j]] \in {"p", "div"}
          /\ ~(dom.parent[all_elements[j]] # 0
               /\ dom.name[dom.parent[all_elements[j]]] \in {"table", "ol", "ul"}) } }

\* C8: a p or div the parent rule does not skip is emitted as a paragraph if and
\* only if its trimmed text is longer than 15 characters and it has no table, ol
\* or ul descendant.
C8_ParagraphRule ==
    \A n \in HandledBlocks :
        HasPart(n, "paragraph") <=>
            (Len(get_text(dom, n)) > 15 /\ Named(dom, n, {"table", "ol", "ul"}) = {})

\* C8 witness: a text of 15 characters dropped and one of 16 kept.
C8_Witness ==
    /\ Returned
    /\ \E n, m \in HandledBlocks :
         /\ Len(get_text(dom, n)) = 15 /\ ~HasPart(n, "paragraph")
         /\ Len(get_text(dom, m)) = 16 /\ HasPart(m, "paragraph")

\* The div elements below the root and the lists and tables nested in them.
NestedIn(d) == { nm \in Named(d, 1, {"div"}) \X Nodes(d) :
                   nm[2] \in Named(d, nm[1], {"table", "ol", "ul"}) }

\* C9 as stated: a list nested at any depth in a div is emitted as a [LIST]
\* block and the div is never emitted as a paragraph.
C9_NestedListAlwaysEmitted ==
    Returned =>
      \A nm \in NestedIn(dom) :
          /\ ~HasPart(nm[1], "paragraph")
          /\ dom.name[nm[2]] \in {"ol", "ul"} => HasPart(nm[2], "list")

\* C9 amended: the div is never emitted as a paragraph; the nested list is
\* emitted as a [LIST] block exactly when it has an li descendant and its direct
\* parent is no table, ol or ul, the nested table as a [TABLE] block exactly when
\* its direct parent is none of these.
C9_NestedStructureSuppressesDiv ==
    Returned =>
      \A nm \in NestedIn(dom) :
          LET free == dom.name[dom.parent[nm[2]]] \notin {"table", "ol", "ul"}
          IN /\ ~HasPart(nm[1], "paragraph")
             /\ dom.name[nm[2]] \in {"ol", "ul"} =>
                  (HasPart(nm[2], "list") <=> (free /\ Named(dom, nm[2], {"li"}) # {}))
             /\ dom.name[nm[2]] = "table" => (HasPart(nm[2], "table") <=> free)

\* C9 witness: a div of more than 15 characters of text whose nested list is
\* emitted while the div is not.
C9_Witness ==
    /\ Returned
    /\ \E nm \in NestedIn(dom) :
         /\ Len(get_text(dom, nm[1])) > 15
         /\ HasPart(nm[2], "list")
         /\ ~HasPart(nm[1], "paragraph")

\* C2: no two blocks of the text extract_article_content returns trace back to
\* the same source node.
C2_NoSourceNodeTwice ==
    (pc = "done" /\ result.method = "beautifulsoup") =>
      \A i, j \in DOMAIN content_from : i < j => content_from[i].node # content_from[j].node

\* C10: a returned result has a text of trimmed length above 200, and what is not
\* such a result is None: nothing is returned before the end, a stage 2 result is
\* the trimmed chosen text.
C10_ResultAboveFloor ==
    /\ pc # "done" => result = Pending
    /\ pc = "done" =>
         \/ result = None
         \/ /\ result.method \in {"newspaper3k", "beautifulsoup"}
            /\ Len(Strip(result.text)) > 200
            /\ result.method = "beautifulsoup" => result.text = Strip(content_text)

\* C10 witness: a stage 2 result of exactly 201 characters.
C10_Witness ==
    pc = "done" /\ result.method = "beautifulsoup" /\ Len(Strip(result.text)) = 201

\* C11: when the library extraction answers a text whose trimmed length is above
\* 200, the call returns at once with method newspaper3k and the trimmed text,
\* having made the library call only; a newspaper3k result is never accompanied
\* by an HTTP GET.
C11_LibrarySuccessReturnsAtOnce ==
    /\ [][(pc = "library" /\ library.kind = "text"
             /\ Len(Strip(library.text)) > MinLibraryText)
          => /\ pc' = "done"
             /\ result' = [title |-> <<"A">>, text |-> Strip(library.text),
                           method |-> "newspaper3k"]
             /\ calls' = <<"library">>]_vars
    /\ [](result.method = "newspaper3k" => pc = "done" /\ calls = <<"library">>)
C11_Witness == pc = "done" /\ result.method = "newspaper3k" /\ calls = <<"library">>

\* stage 1 failed: download or parse raised (a timeout is one), or the text is
\* empty or of trimmed length 200 or less
Stage1Failed(answer) ==
    \/ answer.kind = "raise"
    \/ answer.kind = "text" /\ Len(Strip(answer.text)) <= MinLibraryText

\* C12: a failure of stage 1 ends nothing: the call goes on to the HTTP fetch with
\* no result set, the step after it is the HTTP GET, and an HTTP GET is never
\* made before the library call.
C12_Stage1FailureFallsBack ==
    /\ [][(pc = "library" /\ Stage1Failed(library))
          => pc' = "fetch" /\ result' = Pending /\ calls' = <<"library">>]_vars
    /\ [][pc = "fetch" => calls' = <<"library", "http">>]_vars
    /\ [](\A i \in DOMAIN calls : calls[i] = "http" => i > 1 /\ calls[1] = "library")
C12_Witness == pc = "fetch" /\ result = Pending /\ calls = <<"library">>

\* the result dictionaries a call can build
FullResult(r) ==
    /\ r.method \in {"newspaper3k", "beautifulsoup"}
    /\ Len(r.text) > MinContent
    /\ r.title # <<>>

\* C13: a call ends with None or with a full result, never with an exception; a
\* failed fetch (network error, timeout, status, parse error) and a rejected
\* content both end with None; no result is set before the call ends.
C13_FailuresGiveNone ==
    /\ [](pc = "done" => result = None \/ FullResult(result))
    /\ [](pc # "done" => result = Pending)
    /\ [][(pc = "fetch" /\ http.kind # "ok") => pc' = "done" /\ result' = None]_vars
    /\ [][(pc = "accept" /\ Len(Strip(content_text)) <= MinContent)
          => pc' = "done" /\ result' = None]_vars
C13_Witness == pc = "done" /\ result = None /\ soup = EmptyDom /\ "http" \in {calls[i] : i \in DOMAIN calls}

\* C18: a call makes the library call at most once and the HTTP GET at most once,
\* in that order.
C18_AtMostTwoCalls == calls \in {<<>>, <<"library">>, <<"library", "http">>}
C18_Witness == pc = "done" /\ http = Answered /\ calls = <<"library", "http">>

\* The candidates of a fetched page, computed from the cleaned soup.
Recipe == find_recipe(soup)
RecipeText == extract_structured_content(soup, Recipe)
SpecializedCandidate ==
    IF Recipe # 0 /\ Len(RecipeText) > MinRecipe THEN RecipeText ELSE <<>>
Matching == { k \in DOMAIN content_selectors : select(soup, content_selectors[k]) # <<>> }
FirstMatching == IF Matching = {} THEN 0 ELSE CHOOSE k \in Matching : \A j \in Matching : k <= j
Matches == IF FirstMatching = 0 THEN <<>> ELSE select(soup, content_selectors[FirstMatching])
IsBody(n) == soup.name[n] = "body"
NotBody(n) == ~IsBody(n)
BodyExtracted == \E i \in DOMAIN extractions : IsBody(extractions[i])
\* the elements the selector scan extracted, in the order of the extractions
ScanExtractions ==
    LET scanned == SelectSeq(extractions, NotBody)
    IN IF Recipe # 0 THEN Tail(scanned) ELSE scanned
Scanned == pc \in {"combine", "body", "accept"}
LaterSelectorLonger ==
    \E j \in Matching :
      /\ j > FirstMatching
      /\ \E i \in DOMAIN select(soup, content_selectors[j]) :
           Len(extract_structured_content(soup, select(soup, content_selectors[j])[i]))
             > Len(article_content)

\* C14: after the selector scan, the scan stopped at the first selector of the list
\* that matches anything, the elements it extracted are that selector's matches
\* and no others, and the generic candidate is the longest of their extractions
\* (empty when all are empty); with no matching selector there is no candidate.
C14_FirstMatchingSelectorOnly ==
    Scanned =>
      /\ sel = (IF FirstMatching = 0 THEN Len(content_selectors) + 1 ELSE FirstMatching)
      /\ ScanExtractions = Matches
      /\ \A i \in DOMAIN Matches :
           Len(extract_structured_content(soup, Matches[i])) <= Len(article_content)
      /\ \/ article_content = <<>>
         \/ \E i \in DOMAIN Matches :
              article_content = extract_structured_content(soup, Matches[i])
C14_Witness == pc = "combine" /\ FirstMatching # 0 /\ LaterSelectorLonger

\* C15: the combination takes the specialized candidate (content_text) and the
\* generic candidate (article_content): both, with a blank line between and the
\* specialized one first; the one that exists; nothing when neither does.
C15_SpecializedThenGeneric ==
    [][pc = "combine" =>
         content_text' =
           (IF content_text # <<>> /\ article_content # <<>>
            THEN content_text \o <<NL, NL>> \o article_content
            ELSE IF content_text # <<>> THEN content_text
            ELSE article_content)]_vars
C15_Witness ==
    /\ pc = "body" /\ SpecializedCandidate # <<>> /\ article_content # <<>>
    /\ content_text = SpecializedCandidate \o <<NL, NL>> \o article_content

\* C16: after the recipe step the specialized candidate is the extraction of the
\* recipe container when that is longer than 500, and nothing otherwise; a
\* discarded extraction leaves the combination equal to the generic candidate.
C16_RecipeAboveFloor ==
    /\ pc \in {"title", "select", "combine"} => content_text = SpecializedCandidate
    /\ (pc = "body" /\ Recipe # 0 /\ Len(RecipeText) <= MinRecipe)
         => content_text = article_content
C16_Witness ==
    /\ pc = "title" /\ Recipe # 0 /\ Len(RecipeText) = MinRecipe /\ content_text = <<>>

\* C17 as stated: the body is extracted exactly when neither candidate exists.
C17_BodyIffNoCandidate ==
    pc = "accept" =>
      (BodyExtracted <=> (SpecializedCandidate = <<>> /\ article_content = <<>>))

\* C17: the body is extracted exactly when neither candidate exists and the page
\* has a body element; its extraction is then the chosen text.
C17_BodyIffNoCandidateAndBody ==
    pc = "accept" =>
      /\ BodyExtracted <=> /\ SpecializedCandidate = <<>>
                           /\ article_content = <<>>
                           /\ find(soup, "body") # 0
      /\ BodyExtracted => content_text = extract_structured_content(soup, find(soup, "body"))
C17_Witness ==
    /\ pc = "accept" /\ BodyExtracted /\ FirstMatching # 0 /\ content_text # <<>>
    /\ Matching # {FirstMatching}

\* C20: no element below an emitted table or list, at any depth, has a block of
\* its own.
C20_NothingBelowHandledEmitted ==
    \A i \in PartIndexes :
      content_parts[i].kind \in {"table", "list"}
        => \A j \in PartIndexes :
             ~IsDescendant(dom, content_parts[i].node, content_parts[j].node)

\* What a call returns when it runs alone.
AloneArticle(l, h) ==
    IF library_outcome(l) = "return"
    THEN [title |-> <<"A">>, text |-> Strip(l.text), method |-> "newspaper3k"]
    ELSE IF h.kind # "ok" THEN None
    ELSE LET d == decompose(h.page)
             wprm == IF find_recipe(d) # 0
                        /\ substantial(extract_structured_content(d, find_recipe(d)))
                     THEN extract_structured_content(d, find_recipe(d))
                     ELSE <<>>
             both == combined(wprm, scan(d, 1, <<>>))
             chosen == IF falls_back(both) /\ find(d, "body") # 0
                       THEN extract_structured_content(d, find(d, "body"))
                       ELSE both
             titled == IF find(d, "title") # 0
                       THEN Strip(get_text_raw(d, find(d, "title")))
                       ELSE <<>>
         IN IF accepts(chosen)
            THEN [title |-> IF titled # <<>> THEN titled ELSE <<"W">>,
                  text |-> Strip(chosen), method |-> "beautifulsoup"]
            ELSE None
Alone(t) ==
    IF t.kind = "structured" THEN extract_structured_content(t.dom, 1)
    ELSE AloneArticle(t.library, t.http)

\* C19: whatever the interleaving of two calls, each returns what it returns
\* when run alone, and the objects of a call's frame change only in steps of
\* that call.
C19_CallsDoNotInterfere ==
    /\ [](\A c \in Calls : threads[c].pc = "done" => returns[c] = Alone(threads[c]))
    /\ [][\A c \in Calls : frames'[c] # frames[c] => threads'[c] # threads[c]]_vars
C19_Witness ==
    /\ overlapped
    /\ \A c \in Calls : threads[c].pc = "done"
    /\ threads["a"].kind = "article" /\ returns["a"].method = "beautifulsoup"
    /\ threads["b"].kind = "structured" /\ returns["b"] # <<>>

\* The character of the texts that the pages have inside nav elements only.
NoiseChar == "v"
HasNoiseText(text) == \E i \in DOMAIN text : text[i] = NoiseChar
Removed == { n \in Nodes(soup) : soup.name[n] = DECOMPOSED }

\* C21: from the recipe search to the acceptance the soup holds no script, style,
\* nav, footer, header or aside element and no text of one; no element handed to
\* the extractor is a removed one; the text a stage 2 result returns holds no
\* text of a removed element.
C21_NoiseRemovedFirst ==
    /\ pc \in {"recipe", "title", "select", "combine", "body", "accept"}
         => /\ \A n \in Nodes(soup) : soup.name[n] \notin NOISE
            /\ ~HasNoiseText(get_text_raw(soup, 1))
    /\ \A i \in DOMAIN extractions : extractions[i] \notin Removed
    /\ \A i \in DOMAIN content_from : content_from[i].node \notin Removed
    /\ ~HasNoiseText(content_text) /\ ~HasNoiseText(article_content)
    /\ (pc = "done" /\ result.method = "beautifulsoup") => ~HasNoiseText(result.text)
C21_Witness ==
    /\ pc = "done" /\ result.method = "beautifulsoup"
    /\ \E n \in Removed : \E m \in Removed : IsDescendant(soup, n, m)

\* C24: whenever the loop is at an element, that element's id is not in the dedup
\* set, which holds the ids of the elements processed before it: process_element
\* never takes its early return.
C24_DedupNeverFilters ==
    InLoop =>
      /\ all_elements[idx] \notin seen_ids
      /\ seen_ids \subseteq { all_elements[k] : k \in 1..(idx - 1) }
C24_Witness ==
    /\ Returned /\ Cardinality(seen_ids) > 1 /\ Len(content_parts) > 1
    /\ \E k \in DOMAIN all_elements : all_elements[k] \notin seen_ids

\* The calls of the LLM call loop among the events.
LlmEvents == {"llm_ok", "llm_fail"}
Attempts == Cardinality({ i \in DOMAIN events : events[i] \in LlmEvents })
InTry == attempt >= 0
LastEvent == events[Len(events)]

\* The loop makes at most MAX_RETRIES attempts; a successful attempt is the last;
\* a failed attempt that is not the last allowed is followed by a wait and then
\* the next attempt, and there is no wait without a next attempt; when the last
\* allowed attempt fails the handler ends with an error JSON.
LoopDiscipline ==
    /\ Attempts <= (IF max_retries > 0 THEN max_retries ELSE 0)
    /\ \A i \in DOMAIN events :
         /\ events[i] = "llm_ok" => i = Len(events)
         /\ (events[i] = "llm_fail" /\ i < Len(events)) => events[i + 1] = "sleep"
         /\ events[i] = "sleep" =>
              /\ i > 1 /\ events[i - 1] = "llm_fail"
              /\ IF i < Len(events) THEN events[i + 1] \in LlmEvents
                 ELSE hpc = "loop" /\ attempt < max_retries
    /\ (hpc = "done" /\ events # <<>> /\ LastEvent = "llm_fail")
         => Attempts = max_retries /\ reply.kind = "json" /\ reply.body = "error"

C23_FailedExtractionEndsRequest ==
    /\ article_data = None
         => /\ hpc = "done"
            /\ reply = ErrorJson("Failed to extract")
            /\ events = <<"extract">>
    /\ (hpc \notin {"start", "extract"} /\ article_url # <<>> /\ article_data # None)
         => article_data = Extracted
C23_Witness ==
    /\ hpc = "done" /\ article_data = None
    /\ Strip(request.text) # <<>> /\ ai_topic # <<>>

============================================================================
